---- MODULE Spec2Model ----
(***************************************************************************)
(* A model of create_table_from_sheet.py: the row shaping of               *)
(* _read_worksheet / read_worksheet, the coercions of apply_coercions_1,   *)
(* the statement text of build_insert_rows and the run of load_sheet.      *)
(*                                                                         *)
(* A Python str is a sequence of one-character strings.  A Python dict is  *)
(* a sequence of <<key, value>> pairs in insertion order, keys distinct.   *)
(* A cell value after coercion is a record [t, s, n, e]: t is the Python   *)
(* type ("str", "int", "float", "null", "date", "datetime"), s the         *)
(* characters, n the integer (or the float's digits), e the float's       *)
(* number of decimals.                                                     *)
(***************************************************************************)
EXTENDS Integers, Sequences, FiniteSets, TLC

VARIABLES
    pc,            \* position of the run
    rows,          \* list(worksheet): the header row, then the data rows
    headers,       \* payload['headers'] of _read_worksheet
    data,          \* payload['data'] of _read_worksheet
    objects,       \* the records of read_worksheet
    obj,           \* the argument of apply_coercions_1
    coercions,     \* the CoercionSpec, a dict key -> tag, or NoCoercions
    result,        \* what apply_coercions_1 returned
    error,         \* the exception that ended the run, or "none"
    stderr,        \* the diagnostics printed to sys.stderr
    payload,       \* the argument of build_insert_rows
    out,           \* the chunks written to the StringIO of build_insert_rows
    worksheet_id,  \* the worksheet selector
    verbose,       \* load_sheet's flag
    dry_run,       \* load_sheet's flag
    opened,        \* the worksheets _read_worksheet selected
    connection,    \* "none", "open" or "closed"
    acquired,      \* how many times connect() returned a connection
    statements,    \* (create_table, insert_rows) of load_sheet
    log            \* what load_sheet printed and executed, in order

vars == <<pc, rows, headers, data, objects, obj, coercions, result, error,
          stderr, payload, out, worksheet_id, verbose, dry_run, opened,
          connection, acquired, statements, log>>

(***************************************************************************)
(* Bounds of the inputs.                                                   *)
(***************************************************************************)
MaxCols == 2        \* cells of a header row
MaxCells == 2       \* cells of a data row
MaxRows == 2        \* data rows of a worksheet
MaxValLen == 3      \* characters of a cell under coercion
MaxRecords == 2     \* records of a payload given to build_insert_rows

(***************************************************************************)
(* Sequences and strings.                                                  *)
(***************************************************************************)
Min(a, b) == IF a < b THEN a ELSE b

SeqsUpTo(S, n) == UNION {[1..k -> S] : k \in 0..n}

RECURSIVE Concat(_)
Concat(ss) == IF ss = <<>> THEN <<>> ELSE Head(ss) \o Concat(Tail(ss))

Whitespace == {" ", "\t"}

\* str.strip(): leading and trailing whitespace removed
RECURSIVE LStrip(_)
LStrip(s) ==
    IF s # <<>> /\ Head(s) \in Whitespace THEN LStrip(Tail(s)) ELSE s

RECURSIVE RStrip(_)
RStrip(s) ==
    IF s # <<>> /\ s[Len(s)] \in Whitespace
    THEN RStrip(SubSeq(s, 1, Len(s) - 1))
    ELSE s

Strip(s) == RStrip(LStrip(s))

\* str.lower() on the letters the headers use
Lower(c) ==
    CASE c = "A" -> "a"
      [] c = "B" -> "b"
      [] OTHER -> c

KeyChars == {"a", "b", "0", "1", "_"}

(***************************************************************************)
(* chop_at_blank, drop_empty_rows, headers_to_keys.                        *)
(***************************************************************************)
RECURSIVE chop_at_blank(_)
chop_at_blank(row) ==
    IF row = <<>> THEN <<>>
    ELSE IF Head(row) = <<>> THEN <<>>
    ELSE <<Head(row)>> \o chop_at_blank(Tail(row))

\* any(val.strip() for val in row)
AnyStripped(row) == \E j \in 1..Len(row) : Strip(row[j]) # <<>>

RECURSIVE drop_empty_rows_trimmed(_)
drop_empty_rows_trimmed(rs) ==
    IF rs = <<>> THEN <<>>
    ELSE IF AnyStripped(Head(rs))
         THEN <<[j \in 1..Len(Head(rs)) |-> Strip(Head(rs)[j])]>>
              \o drop_empty_rows_trimmed(Tail(rs))
    ELSE drop_empty_rows_trimmed(Tail(rs))

RECURSIVE drop_empty_rows(_)
drop_empty_rows(rs) ==
    IF rs = <<>> THEN <<>>
    ELSE IF AnyStripped(Head(rs))
         THEN <<Head(rs)>> \o drop_empty_rows(Tail(rs))
    ELSE drop_empty_rows(Tail(rs))

\* regex.sub('_', s) for the regex [^a-z0-9_]+ : every maximal run of
\* characters outside the class becomes one underscore
RECURSIVE RegexSubKey(_, _)
RegexSubKey(s, inRun) ==
    IF s = <<>> THEN <<>>
    ELSE IF Head(s) \in KeyChars THEN <<Head(s)>> \o RegexSubKey(Tail(s), FALSE)
    ELSE IF inRun THEN RegexSubKey(Tail(s), TRUE)
    ELSE <<"_">> \o RegexSubKey(Tail(s), TRUE)

LowerStr(s) == [j \in 1..Len(s) |-> Lower(s[j])]

headers_to_keys(hs) == [j \in 1..Len(hs) |-> RegexSubKey(LowerStr(hs[j]), FALSE)]

(***************************************************************************)
(* dict: a sequence of <<key, value>> pairs.                               *)
(***************************************************************************)
DictKeys(d) == {d[j][1] : j \in 1..Len(d)}

DictGet(d, k) == d[CHOOSE j \in 1..Len(d) : d[j][1] = k][2]

\* d[k] = v : an existing key keeps its place and takes the new value
DictSet(d, k, v) ==
    IF k \in DictKeys(d)
    THEN [j \in 1..Len(d) |-> IF d[j][1] = k THEN <<k, v>> ELSE d[j]]
    ELSE Append(d, <<k, v>>)

\* dict(zip(keys, row)), first key wins: the bug of keeping the first value
RECURSIVE DictZipFirst(_, _, _)
DictZipFirst(d, ks, row) ==
    IF ks = <<>> \/ row = <<>> THEN d
    ELSE DictZipFirst(IF Head(ks) \in DictKeys(d) THEN d
                      ELSE Append(d, <<Head(ks), Head(row)>>),
                      Tail(ks), Tail(row))

\* dict(zip(keys, row)): zip stops at the shorter sequence
RECURSIVE DictZip(_, _, _)
DictZip(d, ks, row) ==
    IF ks = <<>> \/ row = <<>> THEN d
    ELSE DictZip(DictSet(d, Head(ks), Head(row)), Tail(ks), Tail(row))

(***************************************************************************)
(* Values, and the builtins int() and float() on the characters used.      *)
(***************************************************************************)
Str(s) == [t |-> "str", s |-> s, n |-> 0, e |-> 0]
IntVal(n) == [t |-> "int", s |-> <<>>, n |-> n, e |-> 0]
FloatVal(n, e) == [t |-> "float", s |-> <<>>, n |-> n, e |-> e]
DateVal(fmt, s) == [t |-> fmt, s |-> s, n |-> 0, e |-> 0]
None == [t |-> "null", s |-> <<>>, n |-> 0, e |-> 0]

PyNone == "None"    \* the tag coercions.get(key) returns for a missing key

Digits == {"1", "2"}

DigitOf(c) == IF c = "1" THEN 1 ELSE 2

RECURSIVE DigitsValue(_, _)
DigitsValue(s, acc) ==
    IF s = <<>> THEN acc ELSE DigitsValue(Tail(s), 10 * acc + DigitOf(Head(s)))

IsDigits(s) == \A j \in 1..Len(s) : s[j] \in Digits

\* int(s): surrounding whitespace is ignored, then digits only
PyInt(s) ==
    LET t == Strip(s)
    IN IF t # <<>> /\ IsDigits(t)
       THEN [ok |-> TRUE, val |-> IntVal(DigitsValue(t, 0))]
       ELSE [ok |-> FALSE, val |-> None]

\* float(s): surrounding whitespace is ignored, then digits with at most
\* one point and at least one digit
PyFloat(s) ==
    LET t == Strip(s)
        points == {j \in 1..Len(t) : t[j] = "."}
        digits == SelectSeq(t, LAMBDA c : c \in Digits)
        p == IF points = {} THEN Len(t) ELSE CHOOSE j \in points : TRUE
    IN IF /\ digits # <<>>
          /\ Cardinality(points) <= 1
          /\ \A j \in 1..Len(t) : t[j] \in Digits \cup {"."}
       THEN [ok |-> TRUE, val |-> FloatVal(DigitsValue(digits, 0), Len(t) - p)]
       ELSE [ok |-> FALSE, val |-> None]

(***************************************************************************)
(* apply_coercions_1.  An outcome is [val, err, diag]: the new value, the  *)
(* exception raised ("none" if none) and the diagnostics printed.          *)
(***************************************************************************)
Outcome(v, err, diag) == [val |-> v, err |-> err, diag |-> diag]

\* re.sub(r'[,$]', '', val), commas only: the bug of a narrower class
RECURSIVE RemoveCommas(_)
RemoveCommas(s) ==
    IF s = <<>> THEN <<>>
    ELSE IF Head(s) = "," THEN RemoveCommas(Tail(s))
    ELSE <<Head(s)>> \o RemoveCommas(Tail(s))

\* re.sub(r'[,$]', '', val)
RECURSIVE RemoveMoney(_)
RemoveMoney(s) ==
    IF s = <<>> THEN <<>>
    ELSE IF Head(s) \in {",", "$"} THEN RemoveMoney(Tail(s))
    ELSE <<Head(s)>> \o RemoveMoney(Tail(s))

\* val = int(val) if val else None
CoerceInt(val) ==
    LET v == RemoveMoney(val)
    IN IF v = <<>> THEN Outcome(None, "none", <<>>)
       ELSE IF PyInt(v).ok THEN Outcome(PyInt(v).val, "none", <<>>)
       ELSE Outcome(None, "ValueError", <<>>)

\* val = float(val) if val else None
CoerceFloat(val) ==
    LET v == RemoveMoney(val)
    IN IF v = <<>> THEN Outcome(None, "none", <<>>)
       ELSE IF PyFloat(v).ok THEN Outcome(PyFloat(v).val, "none", <<>>)
       ELSE Outcome(None, "ValueError", <<>>)

\* val = dateutil.parser.parse(val) if val.strip() else None
\* val = val.strftime(fmt)
\* accepted: whether dateutil.parser.parse accepts the text (a choice of
\* the library); None has no strftime, so the second line raises on it
CoerceDate(val, fmt, accepted) ==
    IF Strip(val) = <<>> THEN Outcome(None, "AttributeError", <<>>)
    ELSE IF accepted THEN Outcome(DateVal(fmt, val), "none", <<>>)
    ELSE Outcome(None, "ParserError", <<>>)

\* an unknown target that raises: the bug of treating it as fatal
CoerceUnknownRaises(val, target) ==
    Outcome(Str(val), "ValueError", <<target>>)

\* print('Unknown coercion target ...', file=sys.stderr); val is kept
CoerceUnknown(val, target) ==
    Outcome(Str(val), "none", <<target>>)

Coerce(val, target, accepted) ==
    CASE target \in {"int", "integer"} -> CoerceInt(val)
      [] target = "float" -> CoerceFloat(val)
      [] target = "date" -> CoerceDate(val, "date", accepted)
      [] target \in {"datetime", "timestamp"} -> CoerceDate(val, "datetime", accepted)
      [] target # PyNone /\ target \notin {"int", "integer", "float", "date",
                                           "datetime", "timestamp"}
            -> CoerceUnknown(val, target)
      [] OTHER -> Outcome(Str(val), "none", <<>>)

\* coercions.get(key)
CoercionsGet(cs, key) == IF key \in DictKeys(cs) THEN DictGet(cs, key) ELSE PyNone

\* the loop of apply_coercions_1 over obj.items(); acc is [result, error,
\* stderr, returned]; an exception leaves the loop and nothing is returned
RECURSIVE CoerceItems(_, _, _, _)
CoerceItems(items, cs, accepted, acc) ==
    IF items = <<>> THEN [acc EXCEPT !.returned = TRUE]
    ELSE LET key == Head(items)[1]
             c == Coerce(Head(items)[2].s, CoercionsGet(cs, key), accepted)
         IN IF c.err # "none"
            THEN [result |-> <<>>, error |-> c.err, errkey |-> key,
                  stderr |-> acc.stderr \o c.diag, returned |-> FALSE]
            ELSE CoerceItems(Tail(items), cs, accepted,
                             [acc EXCEPT !.result = DictSet(@, key, c.val),
                                         !.stderr = @ \o c.diag])

apply_coercions_1(o, cs, accepted) ==
    CoerceItems(o, cs, accepted,
                [result |-> <<>>, error |-> "none", errkey |-> <<>>,
                 stderr |-> <<>>, returned |-> FALSE])

\* apply_coercions: every object in turn; the first exception ends it
RECURSIVE apply_coercions(_, _, _, _)
apply_coercions(os, cs, accepted, acc) ==
    IF os = <<>> THEN acc
    ELSE LET r == apply_coercions_1(Head(os), cs, accepted)
         IN IF r.returned
            THEN apply_coercions(Tail(os), cs, accepted,
                                 [acc EXCEPT !.data = Append(@, r.result),
                                             !.stderr = @ \o r.stderr])
            ELSE [data |-> <<>>, error |-> r.error,
                  stderr |-> acc.stderr \o r.stderr]

(***************************************************************************)
(* read_worksheet after the worksheet is chosen.                           *)
(***************************************************************************)
StrRow(row) == [j \in 1..Len(row) |-> Str(row[j])]

\* objects.append(dict(zip(keys, row))) for row in payload['data']
BuildObjects(keys, rs) ==
    [j \in 1..Len(rs) |-> DictZip(<<>>, keys, StrRow(rs[j]))]

NoCoercions == <<<<"None">>>>    \* coercions=None

\* if coercions: objects = apply_coercions(objects, coercions)
Coerced(os, cs, accepted) ==
    IF cs = NoCoercions \/ cs = <<>>
    THEN [data |-> os, error |-> "none", stderr |-> <<>>]
    ELSE apply_coercions(os, cs, accepted,
                         [data |-> <<>>, error |-> "none", stderr |-> <<>>])

(***************************************************************************)
(* json.dumps and the statements.  Fixed text is one element; characters   *)
(* that come from the worksheet are one element each.                      *)
(***************************************************************************)
\* json.dumps of a str: quotes, backslashes and tabs are escaped
RECURSIVE JsonEscape(_)
JsonEscape(s) ==
    IF s = <<>> THEN <<>>
    ELSE (CASE Head(s) = "\"" -> <<"\\", "\"">>
            [] Head(s) = "\\" -> <<"\\", "\\">>
            [] Head(s) = "\t" -> <<"\\", "t">>
            [] OTHER -> <<Head(s)>>) \o JsonEscape(Tail(s))

JsonStr(s) == <<"\"">> \o JsonEscape(s) \o <<"\"">>

RECURSIVE Pow10(_)
Pow10(k) == IF k = 0 THEN 1 ELSE 10 * Pow10(k - 1)

RECURSIVE IntChars(_)
IntChars(n) ==
    IF n < 10 THEN <<CHOOSE c \in {"0", "1", "2", "3", "4", "5", "6", "7", "8", "9"} :
                        c = ToString(n)>>
    ELSE IntChars(n \div 10) \o IntChars(n % 10)

\* the e digits of m, zeros in front
RECURSIVE PadChars(_, _)
PadChars(m, e) ==
    IF e = 0 THEN <<>> ELSE PadChars(m \div 10, e - 1) \o IntChars(m % 10)

\* repr of the float n / 10^e
FloatChars(n, e) ==
    IntChars(n \div Pow10(e)) \o <<".">>
    \o (IF e = 0 THEN <<"0">> ELSE PadChars(n % Pow10(e), e))

\* a date is the text strftime returned, which has no character to escape
JsonValue(v) ==
    CASE v.t = "str" -> JsonStr(v.s)
      [] v.t = "int" -> IntChars(v.n)
      [] v.t = "float" -> FloatChars(v.n, v.e)
      [] v.t = "null" -> <<"null">>
      [] OTHER -> JsonStr(v.s)

RECURSIVE JsonItems(_)
JsonItems(d) ==
    IF d = <<>> THEN <<>>
    ELSE JsonStr(d[1][1]) \o <<": ">> \o JsonValue(d[1][2])
         \o (IF Len(d) > 1 THEN <<", ">> ELSE <<>>) \o JsonItems(Tail(d))

\* json.dumps(obj)
JsonDumps(d) == <<"{">> \o JsonItems(d) \o <<"}">>

Schema == "s"
Table == "t"

build_create_table(schema, table) ==
    <<"CREATE OR REPLACE TABLE ", schema, ".", table,
      " (source string, imported_at timestamp_tz, data variant);">>

\* "('{}', current_timestamp, '{}')".format(title, json.dumps(obj))
RowLiteral(title, o) ==
    <<"(", "'">> \o title \o <<"'", ", current_timestamp, ", "'">>
    \o JsonDumps(o) \o <<"'", ")">>

\* the chunks one iteration of the loop writes
RowChunks(title, ds, i) ==
    <<RowLiteral(title, ds[i])>>
    \o (IF i # Len(ds) THEN << <<",">> >> ELSE <<>>)
    \o << <<"\n">> >>

RECURSIVE RowsChunks(_, _, _)
RowsChunks(title, ds, i) ==
    IF i > Len(ds) THEN <<>>
    ELSE RowChunks(title, ds, i) \o RowsChunks(title, ds, i + 1)

\* the writes of build_insert_rows, in order
InsertChunks(schema, table, p) ==
    << <<"INSERT INTO ", schema, ".", table, "\n">>,
       <<"SELECT column1, column2, parse_json(column3)\n">>,
       <<"FROM VALUES\n">> >>
    \o RowsChunks(p.title, p.data, 1)

\* out.getvalue()
build_insert_rows(schema, table, p) == Concat(InsertChunks(schema, table, p))

(***************************************************************************)
(* _read_worksheet: the choice of the worksheet.  A selector is [ty, truthy,*)
(* n, s]: its Python type, its truth value, its number, its characters.    *)
(***************************************************************************)
Sel(ty, truthy, n, str) == [ty |-> ty, truthy |-> truthy, n |-> n, s |-> str]

Selectors ==
    { Sel("NoneType", FALSE, 0, <<>>),            \* None
      Sel("int", FALSE, 0, <<>>),                 \* 0
      Sel("int", TRUE, 1, <<>>),                  \* 1
      Sel("int", TRUE, 2, <<>>),                  \* 2
      Sel("int", TRUE, 7, <<>>),                  \* 7: no such worksheet
      Sel("bool", FALSE, 0, <<>>),                \* False
      Sel("bool", TRUE, 1, <<>>),                 \* True
      Sel("str", FALSE, 0, <<>>),                 \* ''
      Sel("str", TRUE, 0, <<"B">>),               \* 'B'
      Sel("str", TRUE, 0, <<"x">>),               \* 'x': no such title
      Sel("list", FALSE, 0, <<>>),                \* []
      Sel("list", TRUE, 0, <<>>),                 \* [1]
      Sel("float", FALSE, 0, <<>>),               \* 0.0
      Sel("float", TRUE, 1, <<>>) }               \* 1.5

\* isinstance(x, int): bool is a subclass of int
IsInstanceInt(x) == x.ty \in {"int", "bool"}

IsInstanceStr(x) == x.ty = "str"

\* the spreadsheet api.open_by_key returns: its worksheets in order
Spreadsheet ==
    << [title |-> <<"A">>,
        rows |-> << <<<<"A", " ", "B">>, <<"b">>, <<>>, <<"A">>>>,
                    <<<<"x">>, <<"$", "1", ",", "2">>, <<"x">>>>,
                    <<<<" ">>, <<>>>>,
                    <<<<" ", "x">>, <<>>>> >>],
       [title |-> <<"B">>,
        rows |-> << <<<<"a">>, <<"b">>>> >>],
       [title |-> <<"a", "b">>,
        rows |-> << <<<<"A", " ", "b">>, <<"a", "-", "b">>>>,
                    <<<<"x">>, <<"1">>>> >>] >>

\* worksheet_id = worksheet_id or 0
OrZero(x) == IF x.truthy THEN x ELSE Sel("int", FALSE, 0, <<>>)

TitleIndex(t) == {j \in 1..Len(Spreadsheet) : Spreadsheet[j].title = t}

\* lines 54-59: the isinstance chain
WorksheetByType(x) ==
    IF IsInstanceInt(x)
    THEN IF x.n + 1 \in 1..Len(Spreadsheet)
         THEN [error |-> "none", index |-> x.n + 1]
         ELSE [error |-> "IndexError", index |-> 0]
    ELSE IF IsInstanceStr(x)
    THEN IF TitleIndex(x.s) # {}
         THEN [error |-> "none", index |-> CHOOSE j \in TitleIndex(x.s) : TRUE]
         ELSE [error |-> "WorksheetNotFound", index |-> 0]
    ELSE [error |-> "InvalidSelector", index |-> 0]

\* lines 53-59: 'or 0', then the isinstance chain
SelectWorksheet(x) == WorksheetByType(OrZero(x))

\* lines 60-64: title, headers and data of the chosen worksheet
ShapePayload(title, rs) ==
    [title |-> title,
     headers |-> chop_at_blank(rs[1]),
     data |-> drop_empty_rows(Tail(rs))]

(***************************************************************************)
(* Inputs.                                                                 *)
(***************************************************************************)
HeaderCells == {<<>>, <<"A", " ", "B">>, <<"a", "-", "b">>, <<"b">>}

DataCells == {<<>>, <<" ", "\t">>, <<"x">>, <<" ", "y", " ">>}

HeaderRows == SeqsUpTo(HeaderCells, MaxCols)

DataRows == SeqsUpTo(DataCells, MaxCells)

ValChars == {"1", "2", ",", "$", "x", " ", "."}

Values == SeqsUpTo(ValChars, MaxValLen)

KeyA == <<"a">>
KeyB == <<"b">>

Tags == {"int", "integer", "float", "date", "datetime", "timestamp", "text"}

KnownTags == {"int", "integer", "float", "date", "datetime", "timestamp"}

\* the records given to apply_coercions_1: key a alone, or a then b
CoerceObjects ==
    {<< <<KeyA, Str(v)>> >> : v \in Values}
    \cup {<< <<KeyA, Str(v)>>, <<KeyB, Str(w)>> >> :
              v \in Values, w \in {<<>>, <<"x">>}}

\* the CoercionSpecs: a tag, or no entry, for each of the keys a and b
CoercionSpecs ==
    {(IF ta = PyNone THEN <<>> ELSE << <<KeyA, ta>> >>)
     \o (IF tb = PyNone THEN <<>> ELSE << <<KeyB, tb>> >>) :
        ta \in Tags \cup {PyNone}, tb \in Tags \cup {PyNone}}

JsonChars == {"x", "'", "\\", "\""}

BuildRecords == {<< <<KeyA, Str(v)>> >> : v \in SeqsUpTo(JsonChars, MaxValLen)}

Titles == {<<"T">>, <<"T", "'">>}

\* the coercions load_sheet is called with
LoadCoercions ==
    {NoCoercions, <<>>, << <<KeyB, "int">> >>, << <<KeyB, "float">> >>,
     << <<KeyB, "text">> >>, << <<KeyB, "date">> >>}

NoPayload == [title |-> <<>>, headers |-> <<>>, data |-> <<>>]

NoResult == [result |-> <<>>, error |-> "none", errkey |-> <<>>,
             stderr |-> <<>>, returned |-> FALSE]

\* the variables a specification does not use
IdleRead == rows = <<>> /\ headers = <<>> /\ data = <<>> /\ objects = <<>>
IdleCoerce == obj = <<>> /\ result = NoResult
IdleBuild == out = <<>>
IdleLoad ==
    /\ worksheet_id = Sel("NoneType", FALSE, 0, <<>>)
    /\ verbose = FALSE /\ dry_run = FALSE /\ opened = <<>>
    /\ connection = "none" /\ acquired = 0 /\ statements = <<>> /\ log = <<>>

(***************************************************************************)
(* SpecRead, SpecRows: the rows of one worksheet through lines 61-64 of    *)
(* _read_worksheet and lines 117-120 of read_worksheet.                    *)
(***************************************************************************)
InitRead ==
    /\ pc = "rows"
    /\ \E h \in HeaderRows, rs \in SeqsUpTo(DataRows, 1) : rows = <<h>> \o rs
    /\ headers = <<>> /\ data = <<>> /\ objects = <<>>
    /\ coercions = NoCoercions /\ error = "none" /\ stderr = <<>>
    /\ payload = NoPayload
    /\ IdleCoerce /\ IdleBuild /\ IdleLoad

InitRows ==
    /\ pc = "rows"
    /\ \E rs \in SeqsUpTo(DataRows, MaxRows) : rows = << <<KeyA>> >> \o rs
    /\ headers = <<>> /\ data = <<>> /\ objects = <<>>
    /\ coercions = NoCoercions /\ error = "none" /\ stderr = <<>>
    /\ payload = NoPayload
    /\ IdleCoerce /\ IdleBuild /\ IdleLoad

ReadRows ==
    /\ pc = "rows"
    /\ LET p == ShapePayload(<<"T">>, rows)
       IN /\ headers' = p.headers
          /\ data' = p.data
          /\ objects' = BuildObjects(headers_to_keys(p.headers), p.data)
          /\ payload' = p
    /\ pc' = "done"
    /\ UNCHANGED <<rows, obj, coercions, result, error, stderr, out,
                   worksheet_id, verbose, dry_run, opened, connection,
                   acquired, statements, log>>

NextRead == ReadRows

SpecRead == InitRead /\ [][NextRead]_vars

SpecRows == InitRows /\ [][NextRead]_vars

(***************************************************************************)
(* SpecCoerce: one call of apply_coercions_1.                              *)
(***************************************************************************)
InitCoerce ==
    /\ pc = "coerce"
    /\ obj \in CoerceObjects
    /\ coercions \in CoercionSpecs
    /\ result = NoResult
    /\ error = "none" /\ stderr = <<>>
    /\ payload = NoPayload
    /\ IdleRead /\ IdleBuild /\ IdleLoad

ApplyCoercions1 ==
    /\ pc = "coerce"
    /\ \E accepted \in BOOLEAN :
         LET r == apply_coercions_1(obj, coercions, accepted)
         IN /\ result' = r
            /\ error' = r.error
            /\ stderr' = r.stderr
            /\ pc' = IF r.returned THEN "done" ELSE "failed"
    /\ UNCHANGED <<rows, headers, data, objects, obj, coercions, payload, out,
                   worksheet_id, verbose, dry_run, opened, connection,
                   acquired, statements, log>>

NextCoerce == ApplyCoercions1

SpecCoerce == InitCoerce /\ [][NextCoerce]_vars

(***************************************************************************)
(* SpecBuild: one call of build_insert_rows.                               *)
(***************************************************************************)
InitBuild ==
    /\ pc = "build"
    /\ \E t \in Titles, ds \in SeqsUpTo(BuildRecords, MaxRecords) :
         payload = [title |-> t, headers |-> <<>>, data |-> ds]
    /\ out = <<>>
    /\ coercions = NoCoercions /\ error = "none" /\ stderr = <<>>
    /\ IdleRead /\ IdleCoerce /\ IdleLoad

BuildInsertRows ==
    /\ pc = "build"
    /\ out' = InsertChunks(Schema, Table, payload)
    /\ pc' = "done"
    /\ UNCHANGED <<rows, headers, data, objects, obj, coercions, result,
                   error, stderr, payload, worksheet_id, verbose, dry_run,
                   opened, connection, acquired, statements, log>>

NextBuild == BuildInsertRows

SpecBuild == InitBuild /\ [][NextBuild]_vars

(***************************************************************************)
(* Spec: one run of load_sheet.                                            *)
(***************************************************************************)
Init ==
    /\ pc = "config"
    /\ worksheet_id \in Selectors
    /\ coercions \in LoadCoercions
    /\ verbose \in BOOLEAN
    /\ dry_run \in BOOLEAN
    /\ opened = <<>>
    /\ connection = "none"
    /\ acquired = 0
    /\ statements = <<>>
    /\ log = <<>>
    /\ error = "none" /\ stderr = <<>>
    /\ payload = NoPayload
    /\ IdleRead /\ IdleCoerce /\ IdleBuild

LoadIdle == UNCHANGED <<obj, result, worksheet_id, verbose, dry_run, coercions>>

\* line 165: config = read_db_config(config_file)
ReadDbConfig ==
    /\ pc = "config"
    /\ \E ok \in BOOLEAN :
         /\ pc' = IF ok THEN "read" ELSE "failed"
         /\ error' = IF ok THEN "none" ELSE "ConfigReadError"
    /\ LoadIdle
    /\ UNCHANGED <<rows, headers, data, objects, stderr, payload, out, opened,
                   connection, acquired, statements, log>>

\* lines 166-168: payload = read_worksheet(...); authorized: whether
\* pygsheets.authorize succeeds; accepted: dateutil's answer
ReadWorksheet ==
    /\ pc = "read"
    /\ \E authorized \in BOOLEAN, accepted \in BOOLEAN :
         LET w == SelectWorksheet(worksheet_id)
             ws == Spreadsheet[w.index]
             p == ShapePayload(ws.title, ws.rows)
             c == Coerced(BuildObjects(headers_to_keys(p.headers), p.data),
                          coercions, accepted)
         IN IF ~authorized
            THEN /\ error' = "AuthError" /\ pc' = "failed"
                 /\ UNCHANGED <<rows, headers, data, objects, stderr, payload,
                                opened>>
            ELSE IF w.error # "none"
            THEN /\ error' = w.error /\ pc' = "failed"
                 /\ UNCHANGED <<rows, headers, data, objects, stderr, payload,
                                opened>>
            ELSE /\ opened' = Append(opened, w.index)
                 /\ rows' = ws.rows
                 /\ headers' = p.headers
                 /\ data' = p.data
                 /\ stderr' = c.stderr
                 /\ error' = c.error
                 /\ IF c.error # "none"
                    THEN pc' = "failed" /\ UNCHANGED <<objects, payload>>
                    ELSE /\ pc' = "build"
                         /\ objects' = c.data
                         /\ payload' = [title |-> p.title, headers |-> p.headers,
                                        data |-> c.data]
    /\ LoadIdle
    /\ UNCHANGED <<out, connection, acquired, statements, log>>

\* lines 169-170
BuildStatements ==
    /\ pc = "build"
    /\ out' = InsertChunks(Schema, Table, payload)
    /\ statements' = <<build_create_table(Schema, Table),
                       build_insert_rows(Schema, Table, payload)>>
    /\ pc' = "connect"
    /\ LoadIdle
    /\ UNCHANGED <<rows, headers, data, objects, error, stderr, payload,
                   opened, connection, acquired, log>>

\* line 171: with snowflake.connector.connect(**config) as connection
Connect ==
    /\ pc = "connect"
    /\ \E ok \in BOOLEAN :
         IF ok
         THEN /\ connection' = "open" /\ acquired' = acquired + 1
              /\ pc' = "stmt1" /\ UNCHANGED error
         ELSE /\ error' = "WarehouseError" /\ pc' = "failed"
              /\ UNCHANGED <<connection, acquired>>
    /\ LoadIdle
    /\ UNCHANGED <<rows, headers, data, objects, stderr, payload, out, opened,
                   statements, log>>

Event(op, k) == [op |-> op, stmt |-> k, text |-> statements[k]]

\* the loop body that ignores dry_run: the bug of executing regardless
RunStatementAlways ==
    /\ pc \in {"stmt1", "stmt2"}
    /\ \E ok \in BOOLEAN :
         LET k == IF pc = "stmt1" THEN 1 ELSE 2
         IN /\ log' = log
                      \o (IF verbose THEN <<Event("print", k)>> ELSE <<>>)
                      \o <<Event(IF ok THEN "execute" ELSE "execute_failed", k)>>
            /\ IF ok
               THEN pc' = (IF k = 1 THEN "stmt2" ELSE "exit") /\ UNCHANGED error
               ELSE pc' = "exit" /\ error' = "WarehouseError"
    /\ LoadIdle
    /\ UNCHANGED <<rows, headers, data, objects, stderr, payload, out, opened,
                   connection, acquired, statements>>

\* lines 173-177, one iteration: print if verbose, execute unless dry_run;
\* ok: whether cursor.execute succeeds
RunStatement ==
    /\ pc \in {"stmt1", "stmt2"}
    /\ \E ok \in BOOLEAN :
         LET k == IF pc = "stmt1" THEN 1 ELSE 2
         IN /\ log' = log
                      \o (IF verbose THEN <<Event("print", k)>> ELSE <<>>)
                      \o (IF dry_run THEN <<>>
                          ELSE <<Event(IF ok THEN "execute" ELSE "execute_failed", k)>>)
            /\ IF dry_run \/ ok
               THEN pc' = (IF k = 1 THEN "stmt2" ELSE "exit") /\ UNCHANGED error
               ELSE pc' = "exit" /\ error' = "WarehouseError"
    /\ LoadIdle
    /\ UNCHANGED <<rows, headers, data, objects, stderr, payload, out, opened,
                   connection, acquired, statements>>

\* leaving the with block without closing after an exception: the bug of a
\* release on the success path only
ExitWithLeak ==
    /\ pc = "exit"
    /\ connection' = IF error = "none" THEN "closed" ELSE connection
    /\ pc' = IF error = "none" THEN "done" ELSE "failed"
    /\ LoadIdle
    /\ UNCHANGED <<rows, headers, data, objects, error, stderr, payload, out,
                   opened, acquired, statements, log>>

\* line 171: leaving the with block, normally or by an exception, calls the
\* connection's __exit__, which closes it
ExitWith ==
    /\ pc = "exit"
    /\ connection' = "closed"
    /\ pc' = IF error = "none" THEN "done" ELSE "failed"
    /\ LoadIdle
    /\ UNCHANGED <<rows, headers, data, objects, error, stderr, payload, out,
                   opened, acquired, statements, log>>

Next ==
    \/ ReadDbConfig
    \/ ReadWorksheet
    \/ BuildStatements
    \/ Connect
    \/ RunStatement
    \/ ExitWith

Spec == Init /\ [][Next]_vars

\* the run is single-threaded and nothing blocks it: every enabled step is
\* eventually taken
FairSpec == Init /\ [][Next]_vars /\ WF_vars(Next)

(***************************************************************************)
(* The claims.                                                             *)
(***************************************************************************)
Max(S) == CHOOSE x \in S : \A y \in S : y <= x

\* the position of the first empty-string header, counted from 0, or the
\* number of headers if none is empty
FirstBlank(h) ==
    IF \E i \in 1..Len(h) : h[i] = <<>>
    THEN (CHOOSE i \in 1..Len(h) :
              h[i] = <<>> /\ \A j \in 1..(i - 1) : h[j] # <<>>) - 1
    ELSE Len(h)

normalize(h) == headers_to_keys(<<h>>)[1]

\* the positions of row r that reach the record
Mapped(h, r) == 1..Min(FirstBlank(h), Len(r))

\* record d is the mapping normalize(h[i]) -> r[i] over the mapped
\* positions, a later position overriding an earlier one
IsRecordOf(d, h, r) ==
    /\ \A i, j \in 1..Len(d) : d[i][1] = d[j][1] => i = j
    /\ DictKeys(d) = {normalize(h[i]) : i \in Mapped(h, r)}
    /\ \A k \in DictKeys(d) :
         DictGet(d, k) = Str(r[Max({i \in Mapped(h, r) : normalize(h[i]) = k})])

\* C1: every record read_worksheet builds from a retained row r maps
\* normalize(H[i]) to r[i] for the positions i below min(k, len(r)), k the
\* position of the first empty header; cells from k on are dropped, a short
\* row gives fewer keys, and of two headers with one key the later column's
\* value is the one in the record.
C1_RecordIsPositionalMapping ==
    pc = "done" =>
        /\ Len(objects) = Len(data)
        /\ \A m \in 1..Len(data) : IsRecordOf(objects[m], rows[1], data[m])

\* C1 witness: headers "A B" and "a-b" share the key a_b, and the record of
\* a retained two-cell row holds the second cell alone
C1_Witness ==
    /\ pc = "done"
    /\ rows[1] = << <<"A", " ", "B">>, <<"a", "-", "b">> >>
    /\ data = << << <<"x">>, <<" ", "y", " ">> >> >>
    /\ objects = << << << <<"a", "_", "b">>, Str(<<" ", "y", " ">>) >> >> >>

HasContent(row) ==
    \E j \in 1..Len(row) : \E q \in 1..Len(row[j]) : row[j][q] \notin Whitespace

\* the data rows with a cell that is not all whitespace, by position in rows
Kept == {i \in 2..Len(rows) : HasContent(rows[i])}

\* C8: drop_empty_rows keeps a row iff one of its cells is non-empty after
\* trimming; the kept rows are in their original order, cells untrimmed.
C8_KeepsRowsWithContent ==
    pc = "done" =>
        /\ Len(data) = Cardinality(Kept)
        /\ \A m \in 1..Len(data) :
             \E i \in Kept :
                /\ Cardinality({j \in Kept : j <= i}) = m
                /\ data[m] = rows[i]

\* C8 witness: a whitespace-only row is dropped and the padded row after it
\* is kept as it was
C8_Witness ==
    /\ pc = "done"
    /\ Len(rows) = 3
    /\ rows[2] = << <<" ", "\t">>, <<>> >>
    /\ rows[3] = << <<>>, <<" ", "y", " ">> >>
    /\ data = <<rows[3]>>

(***************************************************************************)
(* apply_coercions_1: what became of the item at position j of obj.        *)
(***************************************************************************)
TagAt(j) == CoercionsGet(coercions, obj[j][1])

ErrIndex == CHOOSE j \in 1..Len(obj) : obj[j][1] = result.errkey

RaisedAt(j) == result.error # "none" /\ ErrIndex = j

\* the item was coerced without an exception
Processed(j) == result.returned \/ (result.error # "none" /\ j < ErrIndex)

Finished == pc \in {"done", "failed"}

Money == {",", "$"}

Rest(v) == SelectSeq(v, LAMBDA c : c \notin Money)

\* s is digits, or digits and one point, between optional whitespace
IsLiteral(s, points) ==
    \E a, b \in 1..Len(s) :
        /\ a <= b
        /\ \A q \in 1..Len(s) :
             IF q < a \/ q > b THEN s[q] \in Whitespace
             ELSE s[q] \in Digits \cup {"."}
        /\ \E q \in a..b : s[q] \in Digits
        /\ Cardinality({q \in a..b : s[q] = "."}) <= points

RECURSIVE PlaceSum(_, _)
PlaceSum(ds, q) ==
    IF q > Len(ds) THEN 0
    ELSE DigitOf(ds[q]) * Pow10(Len(ds) - q) + PlaceSum(ds, q + 1)

DigitsIn(s) == SelectSeq(s, LAMBDA c : c \in Digits)

\* the digits after the point
Decimals(s) ==
    Cardinality({q \in 1..Len(s) :
                    s[q] \in Digits /\ \E r \in 1..(q - 1) : s[r] = "."})

\* the number a valid literal denotes
Denoted(s, isInt) ==
    IF isInt THEN IntVal(PlaceSum(DigitsIn(s), 1))
    ELSE FloatVal(PlaceSum(DigitsIn(s), 1), Decimals(s))

\* C3: under tag int, integer or float the result is null exactly when
\* nothing remains once commas and dollar signs are removed, is the number
\* the remaining characters denote when they are a valid literal, and is
\* otherwise a parse error that ends the call with no record.
C3_NumericCoercion ==
    Finished =>
        \A j \in 1..Len(obj) :
            (TagAt(j) \in {"int", "integer", "float"}
             /\ (Processed(j) \/ RaisedAt(j))) =>
                LET rest == Rest(obj[j][2].s)
                    isInt == TagAt(j) # "float"
                    got == DictGet(result.result, obj[j][1])
                IN IF rest = <<>>
                   THEN Processed(j) /\ (result.returned => got = None)
                   ELSE IF IsLiteral(rest, IF isInt THEN 0 ELSE 1)
                   THEN /\ Processed(j)
                        /\ result.returned =>
                              got = Denoted(rest, isInt) /\ got # None
                   ELSE /\ RaisedAt(j)
                        /\ result.error = "ValueError"
                        /\ ~result.returned
                        /\ pc = "failed"

\* C3 witness: "$1," under tag int became the integer 1
C3_Witness ==
    /\ pc = "done"
    /\ obj = << <<KeyA, Str(<<"$", "1", ",">>)>> >>
    /\ TagAt(1) = "int"
    /\ result.returned
    /\ DictGet(result.result, KeyA) = IntVal(1)

\* C2: a value that is empty after trimming, under tag date, datetime or
\* timestamp, becomes null: no error is raised for it and the remaining
\* keys are still processed.
C2_EmptyDateIsNull ==
    Finished =>
        \A j \in 1..Len(obj) :
            (TagAt(j) \in {"date", "datetime", "timestamp"}
             /\ Strip(obj[j][2].s) = <<>>
             /\ (Processed(j) \/ RaisedAt(j))) =>
                /\ Processed(j)
                /\ result.returned => DictGet(result.result, obj[j][1]) = None

UnknownTag(j) == TagAt(j) \notin KnownTags

\* the diagnostics of the items before position n, in order
RECURSIVE Diagnostics(_)
Diagnostics(n) ==
    IF n = 0 THEN <<>>
    ELSE Diagnostics(n - 1)
         \o (IF UnknownTag(n) /\ TagAt(n) # PyNone THEN <<TagAt(n)>> ELSE <<>>)

\* C7: apply_coercions_1 returns a record with the key set of its input;
\* a value whose key has no entry or an unrecognized tag is the original
\* string; an unrecognized tag prints a diagnostic and never raises.
C7_PassThrough ==
    Finished =>
        /\ result.returned =>
              /\ Len(result.result) = Len(obj)
              /\ \A j \in 1..Len(obj) : result.result[j][1] = obj[j][1]
              /\ \A j \in 1..Len(obj) :
                    UnknownTag(j) => result.result[j][2] = obj[j][2]
              /\ stderr = Diagnostics(Len(obj))
        /\ \A j \in 1..Len(obj) : UnknownTag(j) => ~RaisedAt(j)
        /\ result.error # "none" =>
              /\ ~UnknownTag(ErrIndex)
              /\ stderr = Diagnostics(ErrIndex - 1)

\* C7 witness: key a has an unrecognized tag and key b no entry; both come
\* back unchanged and one diagnostic is printed
C7_Witness ==
    /\ pc = "done"
    /\ obj = << <<KeyA, Str(<<"$", "1">>)>>, <<KeyB, Str(<<"x">>)>> >>
    /\ coercions = << <<KeyA, "text">> >>
    /\ result.result = obj
    /\ stderr = <<"text">>

(***************************************************************************)
(* The statement as the warehouse reads it.  In a single-quoted string     *)
(* constant a backslash escapes the next character and two single quotes   *)
(* stand for one; the constant ends at the first other single quote.       *)
(***************************************************************************)
\* the position of the quote that ends the constant whose content starts at
\* position i of s, or 0 if none does
RECURSIVE LiteralEnd(_, _)
LiteralEnd(s, i) ==
    IF i > Len(s) THEN 0
    ELSE IF s[i] = "\\" THEN LiteralEnd(s, i + 2)
    ELSE IF s[i] = "'"
         THEN IF i < Len(s) /\ s[i + 1] = "'" THEN LiteralEnd(s, i + 2) ELSE i
    ELSE LiteralEnd(s, i + 1)

\* the characters the warehouse takes the content s of a constant to be
RECURSIVE Unescaped(_)
Unescaped(s) ==
    IF s = <<>> THEN <<>>
    ELSE IF Head(s) \in {"\\", "'"} /\ Len(s) > 1
         THEN <<s[2]>> \o Unescaped(Tail(Tail(s)))
    ELSE <<Head(s)>> \o Unescaped(Tail(s))

\* how many elements tok of s, from position i on, lie outside the string
\* constants
RECURSIVE CountOutside(_, _, _)
CountOutside(s, i, tok) ==
    IF i > Len(s) THEN 0
    ELSE IF s[i] = "'"
         THEN IF LiteralEnd(s, i + 1) = 0 THEN 0
              ELSE CountOutside(s, LiteralEnd(s, i + 1) + 1, tok)
    ELSE (IF s[i] = tok THEN 1 ELSE 0) + CountOutside(s, i + 1, tok)

\* the chunks of out that are row literals
RowLiterals == {c \in 1..Len(out) : out[c] # <<>> /\ out[c][1] = "("}

\* the position in a row literal of the quote that opens the JSON constant
JsonOpen(title) == Len(title) + 5

\* C4: whatever the title and the cell values, single quotes and
\* backslashes included, the JSON string constant of each row literal ends
\* at the closing quote build_insert_rows wrote, and its content is the
\* JSON text unaltered.
C4_RowLiteralUnbreakable ==
    pc = "done" =>
        \A m \in 1..Len(payload.data) :
            \E c \in RowLiterals :
                /\ Cardinality({d \in RowLiterals : d <= c}) = m
                /\ LET lit == out[c]
                       from == JsonOpen(payload.title) + 1
                       to == LiteralEnd(lit, from)
                   IN /\ to = Len(lit) - 1
                      /\ Unescaped(SubSeq(lit, from, to - 1))
                            = JsonDumps(payload.data[m])

(***************************************************************************)
(* load_sheet.                                                             *)
(***************************************************************************)
Executions == SelectSeq(log, LAMBDA ev : ev.op \in {"execute", "execute_failed"})

\* C5: the insert statement of n >= 1 records holds n row literals and n-1
\* separating commas; with no record there is no dangling comma and no
\* insert statement whose VALUES clause has zero row literals is executed.
C5_NoEmptyInsert ==
    statements # <<>> =>
        LET n == Len(payload.data)
            insert == statements[2]
            literals == CountOutside(insert, 1, "(")
            commas == CountOutside(insert, 1, ",")
        IN /\ n >= 1 => literals = n /\ commas = n - 1
           /\ n = 0 => commas = 0
           /\ literals = 0 =>
                 \A j \in 1..Len(Executions) : Executions[j].stmt # 2

\* C6: the statements executed are a prefix of (create, insert): none under
\* dry_run, the insert only after the create succeeded, each at most once;
\* under verbose each statement is printed before it is executed.
C6_ExecutedPrefix ==
    /\ Len(Executions) <= 2
    /\ \A j \in 1..Len(Executions) :
          Executions[j].stmt = j /\ Executions[j].text = statements[j]
    /\ dry_run => Executions = <<>>
    /\ Len(Executions) = 2 => Executions[1].op = "execute"
    /\ verbose =>
          \A i \in 1..Len(log) :
              log[i].op \in {"execute", "execute_failed"} =>
                  /\ i > 1
                  /\ log[i - 1].op = "print"
                  /\ log[i - 1].text = log[i].text

\* C6 witness: a verbose run that executed both statements
C6_Witness ==
    /\ pc = "done"
    /\ verbose /\ ~dry_run
    /\ Len(log) = 4
    /\ log[2].op = "execute" /\ log[2].stmt = 1
    /\ log[4].op = "execute" /\ log[4].stmt = 2

\* C9: the connection is acquired at most once, and once acquired it is
\* eventually released, whether the statements succeed, the create fails,
\* the insert fails or the run is a dry run.
C9_ConnectionReleased ==
    /\ [](acquired <= 1)
    /\ (connection = "open") ~> (connection = "closed")

\* C9 witness: the connection is closed after the insert statement failed
C9_Witness ==
    /\ connection = "closed"
    /\ acquired = 1
    /\ error = "WarehouseError"
    /\ Len(Executions) = 2
    /\ Executions[2].op = "execute_failed"

\* a selector the caller supplied whose type is neither integer nor string
BadSelector == worksheet_id.ty \in {"list", "float"}

\* C10: a supplied selector that is neither an integer nor a string makes
\* _read_worksheet raise its invalid-selector error and no worksheet is
\* read; only an integer or a string selector selects a worksheet.
C10_InvalidSelectorRejected ==
    /\ (BadSelector /\ pc \notin {"config", "read"}
        /\ error \notin {"ConfigReadError", "AuthError"}) =>
            error = "InvalidSelector"
    /\ BadSelector => opened = <<>>

====
